---- MODULE Spec2Model ----
(***************************************************************************)
(* Model of the context-compaction core of deepagents_bot:                 *)
(*   src/src/compaction/compaction.ts  (token estimator, token counter,    *)
(*   budget calculator, auto-compaction decision, pruneMessages)           *)
(*   memory-flush.ts (hysteresis gate; only its test is in the sources)    *)
(*                                                                         *)
(* A text is a sequence of character classes, one entry per UTF-16 code    *)
(* unit, because the estimator only looks at the class of each character:  *)
(*   "C"  a CJK character in \u4e00-\u9fa5                                 *)
(*   "L"  an ASCII letter a-z A-Z                                          *)
(*   "S"  a blank (whitespace that JSON.stringify leaves alone)            *)
(*   "N"  a line feed (whitespace that JSON.stringify escapes)             *)
(*   "O"  any other character (digit, punctuation)                         *)
(*   "Q"  a double quote (an "other" character JSON.stringify escapes)     *)
(* Numbers with one decimal are carried as integers in tenths.             *)
(***************************************************************************)
EXTENDS Integers, Sequences, FiniteSets, TLC

VARIABLES
    pc,             \* position of the call being modelled
    messages,       \* input message list (pruneMessages, countTotalTokensWithModel)
    maxTokens,      \* input budget of pruneMessages
    result,         \* PruneResult returned by pruneMessages
    config,         \* CompactionConfig
    totalTokens,    \* input of shouldAutoCompact; value of countTotalTokensWithModel
    budgets,        \* the three derived budgets
    autoCompact,    \* value returned by shouldAutoCompact
    flushState,     \* MemoryFlushState
    rearmGap,       \* trigger threshold minus rearm threshold for this config
    lastOp,         \* last memory-flush operation applied
    cooling,        \* history: a flush completed and no observation <= rearm since
    text,           \* input of countTokensWithModel
    model,          \* kind of the optional precise counter
    outcome,        \* how the precise counter's promise settled, per call
    counted,        \* value or failure each call completed with
    invocations     \* number of getNumTokens invocations

vars == <<pc, messages, maxTokens, result, config, totalTokens, budgets,
          autoCompact, flushState, rearmGap, lastOp, cooling, text, model,
          outcome, counted, invocations>>

-----------------------------------------------------------------------------
(* Bounds of the model *)

MaxMsgs == 3         \* longest message list given to pruneMessages
MaxBudget == 22      \* largest maxTokens given to pruneMessages
MaxCfg == 4          \* largest token figure of a CompactionConfig
MaxGap == 2          \* largest hysteresis gap of the memory flush
MaxTextLen == 2      \* longest text given to countTokensWithModel
MaxCountTenths == 12 \* largest count (in tenths) the precise counter reports
MaxTasks == 2        \* longest message list given to countTotalTokensWithModel

-----------------------------------------------------------------------------
(* Program constants *)

MESSAGE_TOKEN_OVERHEAD == 4
MIN_CONTEXT_BUDGET_TOKENS == 1

-----------------------------------------------------------------------------
(* Arithmetic helpers *)

Max(a, b) == IF a >= b THEN a ELSE b
Min(a, b) == IF a <= b THEN a ELSE b

\* Math.ceil of the number n/10
CeilTenths(n) == -((-n) \div 10)

RECURSIVE SumSeq(_)
SumSeq(s) == IF s = <<>> THEN 0 ELSE Head(s) + SumSeq(Tail(s))

-----------------------------------------------------------------------------
(* Token estimator *)

IsLetter(c) == c = "L"
IsChinese(c) == c = "C"
IsWhitespace(c) == c \in {"S", "N"}

\* (text.match(/[\u4e00-\u9fa5]/g) || []).length
chineseChars(t) == Cardinality({i \in 1..Len(t) : IsChinese(t[i])})

\* (text.match(/[a-zA-Z]+/g) || []).length : the maximal runs of letters
englishWords(t) ==
    Cardinality({i \in 1..Len(t) : IsLetter(t[i]) /\ (i = 1 \/ ~IsLetter(t[i-1]))})

\* text.replace(/[\u4e00-\u9fa5a-zA-Z\s]/g, '').length
otherChars(t) ==
    Cardinality({i \in 1..Len(t) :
                   ~IsChinese(t[i]) /\ ~IsLetter(t[i]) /\ ~IsWhitespace(t[i])})

\* Math.ceil(chineseChars + englishWords * 1.3 + otherChars * 0.5), in tenths.
\* (Within the bounds englishWords <= 6, where the double product
\* englishWords * 1.3 rounds up no exact integer sum.)
estimateTokens(t) ==
    IF Len(t) = 0 THEN 0
    ELSE CeilTenths(10 * chineseChars(t) + 13 * englishWords(t) + 5 * otherChars(t))

\* JSON.stringify of a string's characters: a double quote becomes \" and a
\* line feed becomes \n (a backslash, then the letter n)
RECURSIVE JsonEscape(_)
JsonEscape(t) ==
    IF t = <<>> THEN <<>>
    ELSE (CASE Head(t) = "Q" -> <<"O", "Q">>
            [] Head(t) = "N" -> <<"O", "L">>
            [] OTHER -> <<Head(t)>>) \o JsonEscape(Tail(t))

\* JSON.stringify of one content part {type:"text",text:...}
JsonPart(t) ==
    <<"O", "Q", "L", "L", "L", "L", "Q", "O", "Q", "L", "L", "L", "L", "Q", "O",
      "Q", "L", "L", "L", "L", "Q", "O", "Q">> \o JsonEscape(t) \o <<"Q", "O">>

RECURSIVE JsonParts(_)
JsonParts(ps) ==
    IF ps = <<>> THEN <<>>
    ELSE JsonPart(Head(ps)) \o (IF Len(ps) > 1 THEN <<"O">> ELSE <<>>) \o JsonParts(Tail(ps))

\* typeof content === 'string' ? content : JSON.stringify(content)
contentText(message) ==
    IF message.content.kind = "string" THEN message.content.text
    ELSE <<"O">> \o JsonParts(message.content.parts) \o <<"O">>

estimateMessageTokens(message) ==
    estimateTokens(contentText(message)) + MESSAGE_TOKEN_OVERHEAD

RECURSIVE estimateTotalTokens(_)
estimateTotalTokens(ms) ==
    IF ms = <<>> THEN 0
    ELSE estimateMessageTokens(Head(ms)) + estimateTotalTokens(Tail(ms))

-----------------------------------------------------------------------------
(* pruneMessages *)

IsSystem(m) == m.type = "system"
IsNonSystem(m) == m.type # "system"

EmptyPruneResult == [kept |-> <<>>, dropped |-> <<>>, droppedTokens |-> 0, keptTokens |-> 0]

\* Mutant of ScanStep: the kept message is pushed instead of unshifted.
ScanStep_PushKept(acc, msg, availableTokens) ==
    LET msgTokens == estimateMessageTokens(msg) IN
    IF acc.currentTokens + msgTokens <= availableTokens
    THEN [acc EXCEPT !.keptNonSystem = Append(@, msg),
                     !.currentTokens = @ + msgTokens]
    ELSE [acc EXCEPT !.dropped = Append(@, msg),
                     !.droppedTokens = @ + msgTokens]

\* One iteration of the scan: the accumulator holds keptNonSystem,
\* currentTokens, dropped and droppedTokens.
ScanStep(acc, msg, availableTokens) ==
    LET msgTokens == estimateMessageTokens(msg) IN
    IF acc.currentTokens + msgTokens <= availableTokens
    THEN [acc EXCEPT !.keptNonSystem = <<msg>> \o @,
                     !.currentTokens = @ + msgTokens]
    ELSE [acc EXCEPT !.dropped = Append(@, msg),
                     !.droppedTokens = @ + msgTokens]

\* for (let i = nonSystemMessages.length - 1; i >= 0; i--)
RECURSIVE Scan(_, _, _, _)
Scan(nonSystemMessages, i, acc, availableTokens) ==
    IF i = 0 THEN acc
    ELSE Scan(nonSystemMessages, i - 1,
              ScanStep(acc, nonSystemMessages[i], availableTokens), availableTokens)

\* Mutant of AvailableTokens: the system messages' cost is not subtracted.
AvailableTokens_IgnoresSystem(maxTok, systemTokens) == maxTok

\* Mutant of AvailableTokens: the budget left for history is floored at the
\* cost of one empty message.
AvailableTokens_Floored(maxTok, systemTokens) ==
    Max(MESSAGE_TOKEN_OVERHEAD, maxTok - systemTokens)

\* const availableTokens = maxTokens - systemTokens
AvailableTokens(maxTok, systemTokens) == maxTok - systemTokens

pruneMessages(ms, maxTok) ==
    IF Len(ms) = 0 THEN EmptyPruneResult
    ELSE
      LET systemMessages == SelectSeq(ms, IsSystem)
          nonSystemMessages == SelectSeq(ms, IsNonSystem)
          systemTokens == estimateTotalTokens(systemMessages)
          availableTokens == AvailableTokens(maxTok, systemTokens)
          acc == Scan(nonSystemMessages, Len(nonSystemMessages),
                      [keptNonSystem |-> <<>>, currentTokens |-> 0,
                       dropped |-> <<>>, droppedTokens |-> 0],
                      availableTokens)
      IN [kept |-> systemMessages \o acc.keptNonSystem,
          dropped |-> acc.dropped,
          droppedTokens |-> acc.droppedTokens,
          keptTokens |-> systemTokens + acc.currentTokens]

-----------------------------------------------------------------------------
(* Inputs of pruneMessages *)

StringContent(t) == [kind |-> "string", text |-> t]
PartsContent(ps) == [kind |-> "parts", parts |-> ps]

PruneContents ==
    { StringContent(<<>>),
      StringContent(<<"L", "S", "L">>),
      StringContent(<<"C", "C", "C", "C", "C">>),
      PartsContent(<<<<"Q">>>>) }

PruneTypes == {"system", "human"}

\* The message lists of length n; id is the position in the input, standing
\* for the identity of the message object.
MessageLists(n, types, contents) ==
    { [i \in 1..n |-> [id |-> i, type |-> f[i][1], content |-> f[i][2]]] :
        f \in [1..n -> types \X contents] }

Idle == "idle"

InitPrune ==
    /\ pc = "prune"
    /\ messages \in UNION { MessageLists(n, PruneTypes, PruneContents) : n \in 0..MaxMsgs }
    /\ maxTokens \in -1..MaxBudget
    /\ result = EmptyPruneResult
    /\ config = Idle /\ totalTokens = 0 /\ budgets = Idle /\ autoCompact = Idle
    /\ flushState = Idle /\ rearmGap = 0 /\ lastOp = Idle /\ cooling = FALSE
    /\ text = Idle /\ model = Idle /\ outcome = Idle /\ counted = Idle
    /\ invocations = 0

PruneMessages ==
    /\ pc = "prune"
    /\ result' = pruneMessages(messages, maxTokens)
    /\ pc' = "pruned"
    /\ UNCHANGED <<messages, maxTokens, config, totalTokens, budgets, autoCompact,
                   flushState, rearmGap, lastOp, cooling, text, model, outcome,
                   counted, invocations>>

NextPrune == PruneMessages

SpecPrune == InitPrune /\ [][NextPrune]_vars

-----------------------------------------------------------------------------
(* Properties of pruneMessages *)

Pruned == pc = "pruned"

Ids(s) == [i \in 1..Len(s) |-> s[i].id]
IdSet(s) == {s[i].id : i \in 1..Len(s)}
Increasing(s) == \A i, j \in 1..Len(s) : i < j => s[i] < s[j]

InputSystem == SelectSeq(messages, IsSystem)
InputNonSystem == SelectSeq(messages, IsNonSystem)
KeptNonSystem == SelectSeq(result.kept, IsNonSystem)

\* C2: the non-system messages of kept are a contiguous suffix, in the
\* original order, of the input's non-system messages: no kept message is
\* older than a dropped one.
C2_KeptIsContiguousSuffix ==
    Pruned =>
      /\ Len(KeptNonSystem) <= Len(InputNonSystem)
      /\ KeptNonSystem = SubSeq(InputNonSystem,
                                Len(InputNonSystem) - Len(KeptNonSystem) + 1,
                                Len(InputNonSystem))

\* C3: every system message of the input is in kept whatever maxTokens is,
\* and when the system messages alone cost more than maxTokens every
\* non-system message is in dropped and none is in kept.
C3_SystemAlwaysKept ==
    Pruned =>
      /\ SelectSeq(result.kept, IsSystem) = InputSystem
      /\ \A i \in 1..Len(result.dropped) : IsNonSystem(result.dropped[i])
      /\ estimateTotalTokens(InputSystem) > maxTokens =>
           /\ KeptNonSystem = <<>>
           /\ IdSet(result.dropped) = IdSet(InputNonSystem)
           /\ Len(result.dropped) = Len(InputNonSystem)

C3_Witness ==
    /\ Pruned
    /\ Len(InputSystem) >= 2
    /\ Len(InputNonSystem) >= 1
    /\ maxTokens >= MESSAGE_TOKEN_OVERHEAD
    /\ estimateTotalTokens(InputSystem) > maxTokens
    /\ Len(result.dropped) >= 1

\* C4 as stated: any two messages of kept are in kept in the order they have
\* in the input, also when system messages follow non-system ones.
C4_KeptPreservesInputOrder == Pruned => Increasing(Ids(result.kept))

\* C4 as amended: kept is the system messages in input order followed by the
\* retained non-system messages in input order; two kept messages of the same
\* kind keep their input order and no non-system message precedes a system one.
C4_KeptOrderedWithinKind ==
    Pruned =>
      \A i, j \in 1..Len(result.kept) :
        i < j =>
          /\ IsSystem(result.kept[i]) = IsSystem(result.kept[j])
               => result.kept[i].id < result.kept[j].id
          /\ ~(IsNonSystem(result.kept[i]) /\ IsSystem(result.kept[j]))

C4_Witness ==
    /\ Pruned
    /\ Len(KeptNonSystem) >= 2
    /\ \E i, j \in 1..Len(messages) :
         i < j /\ IsNonSystem(messages[i]) /\ IsSystem(messages[j])
           /\ i \in IdSet(result.kept)

\* C5: dropped lists the evicted messages oldest first: of two dropped
\* messages the one earlier in the input is earlier in dropped.
C5_DroppedOldestFirst == Pruned => Increasing(Ids(result.dropped))

\* C10: every input message is in exactly one of kept and dropped,
\* keptTokens + droppedTokens is the estimated total of the input, and
\* keptTokens <= maxTokens whenever the system messages alone fit.
C10_BudgetAndAccounting ==
    Pruned =>
      /\ IdSet(result.kept) \cup IdSet(result.dropped) = 1..Len(messages)
      /\ Len(result.kept) + Len(result.dropped) = Len(messages)
      /\ \A i \in 1..Len(result.kept) : result.kept[i] = messages[result.kept[i].id]
      /\ \A i \in 1..Len(result.dropped) :
           result.dropped[i] = messages[result.dropped[i].id]
      /\ result.keptTokens = estimateTotalTokens(result.kept)
      /\ result.droppedTokens = estimateTotalTokens(result.dropped)
      /\ result.keptTokens + result.droppedTokens = estimateTotalTokens(messages)
      /\ estimateTotalTokens(InputSystem) <= maxTokens
           => result.keptTokens <= maxTokens

C10_Witness ==
    /\ Pruned
    /\ Len(InputSystem) >= 1
    /\ estimateTotalTokens(InputSystem) <= maxTokens
    /\ Len(KeptNonSystem) >= 1
    /\ Len(result.dropped) >= 1
    /\ result.keptTokens = maxTokens

-----------------------------------------------------------------------------
(* Budget calculator and auto-compaction decision *)

\* Mutant of getCompactionHardContextBudget: the floor is missing.
getCompactionHardContextBudget_NoFloor(cfg) ==
    cfg.context_window - cfg.reserve_tokens

getCompactionHardContextBudget(cfg) ==
    Max(MIN_CONTEXT_BUDGET_TOKENS, cfg.context_window - cfg.reserve_tokens)

getEffectiveAutoCompactThreshold(cfg) ==
    Min(cfg.auto_compact_threshold, getCompactionHardContextBudget(cfg))

\* max_history_share is the dyadic fraction share[1]/share[2], so the double
\* product budget * share is exact and Math.floor is the integer quotient.
getCompactionHistoryTokenBudget(cfg) ==
    Max(MIN_CONTEXT_BUDGET_TOKENS,
        (getCompactionHardContextBudget(cfg) * cfg.max_history_share[1])
            \div cfg.max_history_share[2])

\* Mutant of shouldAutoCompact: the comparison is strict.
shouldAutoCompact_Strict(tokens, cfg) ==
    IF ~cfg.enabled THEN FALSE
    ELSE tokens > getEffectiveAutoCompactThreshold(cfg)

shouldAutoCompact(tokens, cfg) ==
    IF ~cfg.enabled THEN FALSE
    ELSE tokens >= getEffectiveAutoCompactThreshold(cfg)

SharePool == {<<1, 4>>, <<1, 2>>, <<1, 1>>}

ConfigPool ==
    [enabled : BOOLEAN,
     auto_compact_threshold : -1..MaxCfg,
     context_window : 0..MaxCfg,
     reserve_tokens : 0..MaxCfg,
     max_history_share : SharePool]

NoBudgets == [computed |-> FALSE, hard |-> 0, threshold |-> 0, history |-> 0]
NoDecision == [computed |-> FALSE, value |-> FALSE]

InitBudget ==
    /\ pc = "budget"
    /\ config \in ConfigPool
    /\ totalTokens \in 0..(MaxCfg + 1)
    /\ budgets = NoBudgets
    /\ autoCompact = NoDecision
    /\ messages = <<>> /\ maxTokens = 0 /\ result = EmptyPruneResult
    /\ flushState = Idle /\ rearmGap = 0 /\ lastOp = Idle /\ cooling = FALSE
    /\ text = Idle /\ model = Idle /\ outcome = Idle /\ counted = Idle
    /\ invocations = 0

\* The three getters, as the budget test calls them
ComputeBudgets ==
    /\ pc = "budget"
    /\ ~budgets.computed
    /\ budgets' = [computed |-> TRUE,
                   hard |-> getCompactionHardContextBudget(config),
                   threshold |-> getEffectiveAutoCompactThreshold(config),
                   history |-> getCompactionHistoryTokenBudget(config)]
    /\ UNCHANGED <<pc, messages, maxTokens, result, config, totalTokens, autoCompact,
                   flushState, rearmGap, lastOp, cooling, text, model, outcome,
                   counted, invocations>>

ShouldAutoCompact ==
    /\ pc = "budget"
    /\ ~autoCompact.computed
    /\ autoCompact' = [computed |-> TRUE, value |-> shouldAutoCompact(totalTokens, config)]
    /\ UNCHANGED <<pc, messages, maxTokens, result, config, totalTokens, budgets,
                   flushState, rearmGap, lastOp, cooling, text, model, outcome,
                   counted, invocations>>

NextBudget == ComputeBudgets \/ ShouldAutoCompact

SpecBudget == InitBudget /\ [][NextBudget]_vars

RawBudget == config.context_window - config.reserve_tokens

\* C6 as stated: for every config the hard budget, the effective auto-compact
\* threshold and the history budget are all at least 1.
C6_AllBudgetsAtLeastOne ==
    budgets.computed =>
      /\ budgets.hard >= 1
      /\ budgets.threshold >= 1
      /\ budgets.history >= 1

\* C6 as amended: the hard budget and the history budget are at least 1 for
\* every config; the effective threshold is the smaller of
\* auto_compact_threshold and the hard budget, so it is at least 1 exactly
\* when auto_compact_threshold is at least 1.
C6_BudgetsFlooredThresholdClamped ==
    budgets.computed =>
      /\ budgets.hard >= 1
      /\ budgets.history >= 1
      /\ budgets.history <= budgets.hard
      /\ budgets.threshold <= budgets.hard
      /\ budgets.threshold <= config.auto_compact_threshold
      /\ (budgets.threshold >= 1) <=> (config.auto_compact_threshold >= 1)

C6_Witness ==
    /\ budgets.computed
    /\ RawBudget <= 0
    /\ config.auto_compact_threshold <= 0
    /\ budgets.hard = 1
    /\ budgets.history = 1

\* C9: shouldAutoCompact is false when the config is disabled and otherwise
\* true exactly when totalTokens >= min(auto_compact_threshold,
\* max(1, context_window - reserve_tokens)), the boundary included.
C9_ShouldAutoCompactInclusive ==
    autoCompact.computed =>
      LET floored == IF RawBudget >= 1 THEN RawBudget ELSE 1
          threshold == IF config.auto_compact_threshold <= floored
                       THEN config.auto_compact_threshold ELSE floored
      IN /\ ~config.enabled => autoCompact.value = FALSE
         /\ config.enabled /\ totalTokens >= threshold => autoCompact.value = TRUE
         /\ config.enabled /\ totalTokens <= threshold - 1 => autoCompact.value = FALSE

C9_Witness ==
    /\ autoCompact.computed
    /\ config.enabled
    /\ RawBudget >= 2
    /\ config.auto_compact_threshold > RawBudget
    /\ totalTokens = RawBudget
    /\ autoCompact.value = TRUE

-----------------------------------------------------------------------------
(* Memory flush state machine (memory-flush.ts) *)

createMemoryFlushState == [totalTokens |-> 0, flushCycleArmed |-> TRUE]

\* The trigger point is the effective auto-compact threshold
getMemoryFlushTriggerThreshold(cfg) == getEffectiveAutoCompactThreshold(cfg)

\* A value strictly below the trigger threshold, by the hysteresis gap
getMemoryFlushRearmThreshold(cfg, gap) == getMemoryFlushTriggerThreshold(cfg) - gap

\* Mutant of setTotalTokens: the gate rearms at the trigger threshold.
setTotalTokens_RearmsAtTrigger(state, tokens, cfg, gap) ==
    [totalTokens |-> tokens,
     flushCycleArmed |->
        IF ~state.flushCycleArmed /\ tokens <= getMemoryFlushTriggerThreshold(cfg)
        THEN TRUE ELSE state.flushCycleArmed]

setTotalTokens(state, tokens, cfg, gap) ==
    [totalTokens |-> tokens,
     flushCycleArmed |->
        IF ~state.flushCycleArmed /\ tokens <= getMemoryFlushRearmThreshold(cfg, gap)
        THEN TRUE ELSE state.flushCycleArmed]

markFlushCompleted(state) == [state EXCEPT !.flushCycleArmed = FALSE]

shouldTriggerMemoryFlush(state, cfg) ==
    state.flushCycleArmed /\ state.totalTokens >= getMemoryFlushTriggerThreshold(cfg)

InitFlush ==
    /\ pc = "flush"
    /\ config \in ConfigPool
    /\ rearmGap \in 1..MaxGap
    /\ flushState = createMemoryFlushState
    /\ lastOp = "create"
    /\ cooling = FALSE
    /\ totalTokens = 0 /\ budgets = NoBudgets /\ autoCompact = NoDecision
    /\ messages = <<>> /\ maxTokens = 0 /\ result = EmptyPruneResult
    /\ text = Idle /\ model = Idle /\ outcome = Idle /\ counted = Idle
    /\ invocations = 0

SetTotalTokens(tokens) ==
    /\ pc = "flush"
    /\ flushState' = setTotalTokens(flushState, tokens, config, rearmGap)
    /\ lastOp' = "setTotalTokens"
    /\ cooling' = IF tokens <= getMemoryFlushRearmThreshold(config, rearmGap)
                  THEN FALSE ELSE cooling
    /\ UNCHANGED <<pc, messages, maxTokens, result, config, totalTokens, budgets,
                   autoCompact, rearmGap, text, model, outcome, counted, invocations>>

MarkFlushCompleted ==
    /\ pc = "flush"
    /\ flushState' = markFlushCompleted(flushState)
    /\ lastOp' = "markFlushCompleted"
    /\ cooling' = TRUE
    /\ UNCHANGED <<pc, messages, maxTokens, result, config, totalTokens, budgets,
                   autoCompact, rearmGap, text, model, outcome, counted, invocations>>

NextFlush ==
    \/ \E tokens \in -2..(MaxCfg + 2) : SetTotalTokens(tokens)
    \/ MarkFlushCompleted

SpecFlush == InitFlush /\ [][NextFlush]_vars

\* C1: once markFlushCompleted has been applied shouldTriggerMemoryFlush is
\* false in every later state, whatever totals are observed, until an
\* observation is at or below the rearm threshold; that observation arms the
\* gate again, and an armed gate triggers on an observation at or above the
\* trigger threshold.
C1_FlushOncePerExcursion ==
    /\ cooling => ~shouldTriggerMemoryFlush(flushState, config)
    /\ cooling => ~flushState.flushCycleArmed
    /\ ~cooling => flushState.flushCycleArmed
    /\ (~cooling /\ lastOp = "setTotalTokens"
          /\ flushState.totalTokens >= getMemoryFlushTriggerThreshold(config))
         => shouldTriggerMemoryFlush(flushState, config)

C1_Witness ==
    /\ cooling
    /\ lastOp = "setTotalTokens"
    /\ flushState.totalTokens >= getMemoryFlushTriggerThreshold(config)
    /\ flushState.totalTokens > 0

-----------------------------------------------------------------------------
(* Token counter *)

\* What a call completes with: a number, null, or a rejected promise
Resolved(n) == [kind |-> "value", value |-> n]
NullResult == [kind |-> "null", value |-> 0]
Rejected == [kind |-> "rejected", value |-> 0]

\* How getNumTokens ends: it returns a number (in tenths), NaN, an infinity or
\* a value that is no number, throws, or its promise rejects
Reported(tenths) == [kind |-> "number", tenths |-> tenths]
Failure(kind) == [kind |-> kind, tenths |-> 0]
NotInvoked == Failure("notInvoked")
Pending == Failure("pending")

CounterOutcomes ==
    {Reported(n) : n \in -2..MaxCountTenths}
      \cup {Failure(k) : k \in {"NaN", "Infinity", "-Infinity", "notANumber",
                                "throws", "rejects"}}

Models == {"absent", "noGetNumTokens", "counter"}

\* [system] / [user] / [assistant] / [<type>]
roleLabelForMessage(message) ==
    LET n == CASE message.type = "human" -> 4
               [] message.type = "ai" -> 9
               [] message.type = "system" -> 6
               [] message.type = "tool" -> 4
    IN [i \in 1..n |-> "L"]

\* `[${roleLabelForMessage(message)}]\n${content}`
serializeMessageForTokenCount(message) ==
    <<"O">> \o roleLabelForMessage(message) \o <<"O", "N">> \o contentText(message)

\* getNumTokens is called only for a non-empty text and a model that has it
InvokesCounter(t, mdl) == Len(t) # 0 /\ mdl = "counter"

\* Mutant of tryCountTokensByModel: there is no try/catch around the call.
tryCountTokensByModel_NoCatch(t, mdl, o) ==
    IF Len(t) = 0 THEN Resolved(0)
    ELSE IF mdl = "absent" THEN NullResult
    ELSE IF mdl = "noGetNumTokens" THEN NullResult
    ELSE IF o.kind \in {"throws", "rejects"} THEN Rejected
    ELSE IF o.kind = "number" /\ o.tenths >= 0 THEN Resolved(CeilTenths(o.tenths))
    ELSE NullResult

\* o is how getNumTokens ends when it is invoked
tryCountTokensByModel(t, mdl, o) ==
    IF Len(t) = 0 THEN Resolved(0)
    ELSE IF mdl = "absent" THEN NullResult
    ELSE IF mdl = "noGetNumTokens" THEN NullResult
    ELSE IF o.kind = "number" /\ o.tenths >= 0 THEN Resolved(CeilTenths(o.tenths))
    ELSE NullResult

\* text ?? ''
Normalized(arg) == IF arg.defined THEN arg.chars ELSE <<>>

\* An await of a rejected promise rejects the caller's promise
countTokensWithModel(t, mdl, o) ==
    LET modelTokens == tryCountTokensByModel(t, mdl, o) IN
    IF modelTokens.kind = "rejected" THEN Rejected
    ELSE IF modelTokens.kind # "null" THEN modelTokens
    ELSE Resolved(estimateTokens(t))

\* Mutant of countMessageTokensWithModel: the overhead is not added.
countMessageTokensWithModel_NoOverhead(message, mdl, o) ==
    countTokensWithModel(serializeMessageForTokenCount(message), mdl, o)

countMessageTokensWithModel(message, mdl, o) ==
    LET contentTokens ==
          countTokensWithModel(serializeMessageForTokenCount(message), mdl, o)
    IN IF contentTokens.kind = "rejected" THEN Rejected
       ELSE Resolved(contentTokens.value + MESSAGE_TOKEN_OVERHEAD)

-----------------------------------------------------------------------------
(* countTokensWithModel, one call *)

Alphabet == {"C", "L", "S", "N", "O", "Q"}
Texts == UNION { [1..n -> Alphabet] : n \in 0..MaxTextLen }
TextArgs == {[defined |-> FALSE, chars |-> <<>>]}
              \cup {[defined |-> TRUE, chars |-> t] : t \in Texts}

InitCount ==
    /\ pc = "count"
    /\ text \in TextArgs
    /\ model \in Models
    /\ outcome = NotInvoked
    /\ counted = NullResult
    /\ invocations = 0
    /\ messages = <<>> /\ maxTokens = 0 /\ result = EmptyPruneResult
    /\ config = Idle /\ totalTokens = 0 /\ budgets = NoBudgets
    /\ autoCompact = NoDecision
    /\ flushState = Idle /\ rearmGap = 0 /\ lastOp = Idle /\ cooling = FALSE

\* The call up to its first suspension: it completes at once unless
\* getNumTokens is invoked
CountTokensStart ==
    /\ pc = "count"
    /\ IF InvokesCounter(Normalized(text), model)
       THEN /\ pc' = "awaitingCounter"
            /\ invocations' = invocations + 1
            /\ UNCHANGED counted
       ELSE /\ pc' = "counted"
            /\ counted' = countTokensWithModel(Normalized(text), model, NotInvoked)
            /\ UNCHANGED invocations
    /\ UNCHANGED <<messages, maxTokens, result, config, totalTokens, budgets,
                   autoCompact, flushState, rearmGap, lastOp, cooling, text, model,
                   outcome>>

\* getNumTokens ends in the way o and the call resumes
CounterSettles(o) ==
    /\ pc = "awaitingCounter"
    /\ outcome' = o
    /\ counted' = countTokensWithModel(Normalized(text), model, o)
    /\ pc' = "counted"
    /\ UNCHANGED <<messages, maxTokens, result, config, totalTokens, budgets,
                   autoCompact, flushState, rearmGap, lastOp, cooling, text, model,
                   invocations>>

NextCount ==
    \/ CountTokensStart
    \/ \E o \in CounterOutcomes : CounterSettles(o)

SpecCount == InitCount /\ [][NextCount]_vars

\* The counter reported a finite number that is not negative
Usable(o) == o.kind = "number" /\ o.tenths >= 0

\* C7: countTokensWithModel never fails. With the counter absent, without
\* getNumTokens, throwing or rejecting, or reporting a non-finite or negative
\* value the call returns estimateTokens(text); a finite non-negative report
\* is returned rounded up; an empty text gives 0 with no counter invocation.
C7_CountNeverFails ==
    /\ counted.kind # "rejected"
    /\ pc = "counted" =>
         LET t == Normalized(text) IN
         /\ counted.kind = "value"
         /\ t = <<>> => counted.value = 0 /\ invocations = 0
         /\ (t # <<>> /\ (model # "counter" \/ ~Usable(outcome)))
              => counted.value = estimateTokens(t)
         /\ (t # <<>> /\ model = "counter" /\ Usable(outcome))
              => /\ 10 * counted.value >= outcome.tenths
                 /\ 10 * (counted.value - 1) < outcome.tenths
         /\ model # "counter" => invocations = 0

C7_Witness ==
    /\ pc = "counted"
    /\ model = "counter"
    /\ outcome.kind = "rejects"
    /\ invocations = 1
    /\ counted.kind = "value"
    /\ counted.value = estimateTokens(Normalized(text))
    /\ counted.value >= 2

-----------------------------------------------------------------------------
(* countTotalTokensWithModel *)

TotalTypes == {"system", "human", "ai", "tool"}
TotalContents == {StringContent(<<>>), StringContent(<<"C", "L">>)}
TotalOutcomes == {Reported(15), Reported(-1), Failure("NaN"), Failure("rejects")}

InitTotal ==
    /\ pc = "total"
    /\ messages \in UNION { MessageLists(n, TotalTypes, TotalContents) : n \in 0..MaxTasks }
    /\ model \in Models
    /\ outcome = <<>>
    /\ counted = <<>>
    /\ totalTokens = 0
    /\ invocations = 0
    /\ text = Idle /\ maxTokens = 0 /\ result = EmptyPruneResult
    /\ config = Idle /\ budgets = NoBudgets /\ autoCompact = NoDecision
    /\ flushState = Idle /\ rearmGap = 0 /\ lastOp = Idle /\ cooling = FALSE

\* messages.map(...) runs every countMessageTokensWithModel up to its first
\* suspension, which is after getNumTokens was called when the model has it;
\* an empty list returns 0 before that
DispatchCounts ==
    /\ pc = "total"
    /\ IF Len(messages) = 0
       THEN /\ pc' = "summed"
            /\ totalTokens' = 0
            /\ UNCHANGED <<outcome, counted, invocations>>
       ELSE /\ pc' = "awaitingAll"
            /\ outcome' = [i \in 1..Len(messages) |-> Pending]
            /\ counted' = [i \in 1..Len(messages) |-> NullResult]
            /\ invocations' =
                 Cardinality({i \in 1..Len(messages) :
                    InvokesCounter(serializeMessageForTokenCount(messages[i]), model)})
            /\ UNCHANGED totalTokens
    /\ UNCHANGED <<messages, maxTokens, result, config, budgets, autoCompact,
                   flushState, rearmGap, lastOp, cooling, text, model>>

\* The count of message i completes; o is how its getNumTokens call ended
CountSettles(i, o) ==
    /\ pc = "awaitingAll"
    /\ outcome[i] = Pending
    /\ outcome' = [outcome EXCEPT ![i] = o]
    /\ counted' = [counted EXCEPT ![i] = countMessageTokensWithModel(messages[i], model, o)]
    /\ UNCHANGED <<pc, messages, maxTokens, result, config, totalTokens, budgets,
                   autoCompact, flushState, rearmGap, lastOp, cooling, text, model,
                   invocations>>

\* Promise.all resolves with the counts by index once every count has
\* resolved (a rejected count would reject it); counts.reduce sums them
SumCounts ==
    /\ pc = "awaitingAll"
    /\ \A i \in 1..Len(messages) : counted[i].kind = "value"
    /\ totalTokens' = SumSeq([i \in 1..Len(messages) |-> counted[i].value])
    /\ pc' = "summed"
    /\ UNCHANGED <<messages, maxTokens, result, config, budgets, autoCompact,
                   flushState, rearmGap, lastOp, cooling, text, model, outcome,
                   counted, invocations>>

NextTotal ==
    \/ DispatchCounts
    \/ \E i \in 1..Len(messages) :
         \E o \in (IF model = "counter" THEN TotalOutcomes ELSE {NotInvoked}) :
           CountSettles(i, o)
    \/ SumCounts

SpecTotal == InitTotal /\ [][NextTotal]_vars

\* The term of message i: its precise count rounded up when the counter
\* reported a usable value for it, its estimate otherwise, plus the overhead
OwnTerm(i) ==
    (IF model = "counter" /\ Usable(outcome[i])
     THEN CHOOSE n \in 0..(MaxCountTenths + 20) :
            10 * n >= outcome[i].tenths /\ 10 * (n - 1) < outcome[i].tenths
     ELSE estimateTokens(serializeMessageForTokenCount(messages[i])))
    + MESSAGE_TOKEN_OVERHEAD

\* C8: the counts are dispatched together and, in whatever order they
\* complete and whichever of them fail, a completed count is that message's
\* own term and the result is the sum of the terms; an empty list gives 0
\* with no counter invocation.
C8_TotalIsSumOfOwnTerms ==
    /\ pc \in {"total", "awaitingAll", "summed"}
    /\ pc = "awaitingAll" =>
         \A i \in 1..Len(messages) :
           outcome[i] # Pending => counted[i] = Resolved(OwnTerm(i))
    /\ pc = "summed" =>
         /\ totalTokens = SumSeq([i \in 1..Len(messages) |-> OwnTerm(i)])
         /\ Len(messages) = 0 => totalTokens = 0 /\ invocations = 0

C8_Witness ==
    /\ pc = "summed"
    /\ Len(messages) >= 2
    /\ model = "counter"
    /\ outcome[1].kind = "rejects"
    /\ Usable(outcome[2])
    /\ invocations = Len(messages)

====
